---- MODULE Spec2Model ----
(***************************************************************************)
(* A model of src/services/geminiService.ts: the GeminiService client      *)
(* (generateImage, editImage, segmentImage, buildEditPrompt) around one    *)
(* remote "generate content" call.                                         *)
(*                                                                         *)
(* Conventions.  An optional JavaScript value (a field that may be         *)
(* undefined) is a sequence of length 0 or 1: None or Some(x).  A string   *)
(* whose characters the code inspects (an error message, searched with     *)
(* includes('quota')) is a sequence of one-character strings.  A template  *)
(* literal is the sequence of its segments, fixed text and interpolated    *)
(* values in order.  Image payloads and response texts are opaque strings; *)
(* "" is the empty (falsy) string.                                         *)
(***************************************************************************)
EXTENDS Integers, Sequences, FiniteSets, TLC

VARIABLES genAI, inv, sent, reply, console

vars == <<genAI, inv, sent, reply, console>>

----------------------------------------------------------------------------
(* Bounds of the model *)

\* longest referenceImages list of a request
MaxRefs == 2
\* most content parts in the first candidate of a response
MaxParts == 3
\* invocations in flight together in SpecConc
MaxInv == 2

----------------------------------------------------------------------------
(* Optional values and truthiness *)

None == <<>>
Some(x) == <<x>>
IsSome(o) == Len(o) = 1
Get(o) == o[1]

\* JavaScript truthiness of an optional string (undefined and "" are falsy)
TruthyStr(o) == IsSome(o) /\ Get(o) # ""
\* JavaScript truthiness of an optional character-sequence string
TruthyChars(o) == IsSome(o) /\ Len(Get(o)) > 0

\* all sequences over S of length at most n
SeqUpTo(S, n) == UNION {[1..k -> S] : k \in 0..n}

----------------------------------------------------------------------------
(* Error messages as character sequences; String.prototype.includes *)

Quota == <<"q", "u", "o", "t", "a">>
MsgEmpty == <<>>
MsgQuot == <<"q", "u", "o", "t">>
MsgNoQuota == <<"n", "o", " ", "q", "u", "o", "t", "a", "!">>

Includes(s, sub) ==
  \E k \in 0..(Len(s) - Len(sub)) : SubSeq(s, k + 1, k + Len(sub)) = sub

----------------------------------------------------------------------------
(* The values a caught error can have: optional code and message at the    *)
(* three nesting depths the catch block reads.                             *)

RateLimitCode == 429

\* absent, the rate-limit status, or another status (500)
Codes == {None, Some(RateLimitCode), Some(500)}
Messages == {None, Some(MsgEmpty), Some(MsgQuot), Some(MsgNoQuota)}

\* error.error.error
Errors3 == [code : Codes, message : Messages]
\* error.error
Errors2 == [code : Codes, message : Messages, error : {None} \cup {Some(e) : e \in Errors3}]
\* the caught error itself; all fields None is an error value with no fields
Errors == [code : Codes, message : Messages, error : {None} \cup {Some(e) : e \in Errors2}]

\* error?.error?.code, error?.error?.message, ... by optional chaining
ErrCode(error) == error.code
ErrMessage(error) == error.message
ErrErrCode(error) == IF IsSome(error.error) THEN Get(error.error).code ELSE None
ErrErrMessage(error) == IF IsSome(error.error) THEN Get(error.error).message ELSE None
ErrErrErr(error) == IF IsSome(error.error) THEN Get(error.error).error ELSE None
ErrErrErrCode(error) == IF IsSome(ErrErrErr(error)) THEN Get(ErrErrErr(error)).code ELSE None
ErrErrErrMessage(error) == IF IsSome(ErrErrErr(error)) THEN Get(ErrErrErr(error)).message ELSE None

----------------------------------------------------------------------------
(* Thrown errors: new Error(`literal${detail}`) *)

RateLimitMessage == "Rate limit exceeded. Please wait a few minutes before trying again, or upgrade your Google AI Studio plan for higher quotas."
ApiErrorPrefix == "API Error: "
GenericErrorPrefix == "Error: "
GenerateFailedMessage == "Failed to generate image. Please try again."
EditFailedMessage == "Failed to edit image. Please try again."
SegmentFailedMessage == "Failed to segment image. Please try again."
NoResponseTextMessage == "No response text received from API"
SyntaxErrorName == "SyntaxError"

NewError(literal, detail) == [literal |-> literal, detail |-> detail]
NoError == NewError("", <<>>)

\* the if-condition of the rate-limit branch of generateImage's catch block
IsRateLimitDroppedShape(error) ==
  \/ ErrErrCode(error) = Some(RateLimitCode)
  \/ ErrErrErrCode(error) = Some(RateLimitCode)
  \/ TruthyChars(ErrErrMessage(error)) /\ Includes(Get(ErrErrMessage(error)), Quota)

IsRateLimit(error) ==
  \/ ErrErrCode(error) = Some(RateLimitCode)
  \/ ErrErrErrCode(error) = Some(RateLimitCode)
  \/ ErrCode(error) = Some(RateLimitCode)
  \/ TruthyChars(ErrErrMessage(error)) /\ Includes(Get(ErrErrMessage(error)), Quota)

\* the catch block of generateImage: the Error it throws for a caught error
NormalizeErrorGenericFirst(error) ==
  IF IsRateLimit(error) THEN NewError(RateLimitMessage, <<>>)
  ELSE IF TruthyChars(ErrMessage(error))
    THEN NewError(GenericErrorPrefix, Get(ErrMessage(error)))
  ELSE IF TruthyChars(ErrErrMessage(error))
    THEN NewError(ApiErrorPrefix, Get(ErrErrMessage(error)))
  ELSE IF TruthyChars(ErrErrErrMessage(error))
    THEN NewError(ApiErrorPrefix, Get(ErrErrErrMessage(error)))
  ELSE NewError(GenerateFailedMessage, <<>>)

NormalizeError(error) ==
  IF IsRateLimit(error) THEN NewError(RateLimitMessage, <<>>)
  ELSE IF TruthyChars(ErrErrMessage(error))
    THEN NewError(ApiErrorPrefix, Get(ErrErrMessage(error)))
  ELSE IF TruthyChars(ErrErrErrMessage(error))
    THEN NewError(ApiErrorPrefix, Get(ErrErrErrMessage(error)))
  ELSE IF TruthyChars(ErrMessage(error))
    THEN NewError(GenericErrorPrefix, Get(ErrMessage(error)))
  ELSE NewError(GenerateFailedMessage, <<>>)

----------------------------------------------------------------------------
(* Requests *)

RefValues == {"", "refA"}
OptionalRefs == {None} \cup {Some(s) : s \in SeqUpTo(RefValues, MaxRefs)}

\* GenerationRequest; temperature and seed are never read by the service
GenerationRequests == [prompt : {"a cat"}, referenceImages : OptionalRefs]

\* EditRequest
EditRequests ==
  [instruction : {"make it red"}, originalImage : {"orig"},
   referenceImages : OptionalRefs, maskImage : {None, Some(""), Some("mask")}]

\* SegmentationRequest
SegmentationRequests == [image : {"orig"}, query : {"the red car", "pixel (3,4)"}]

----------------------------------------------------------------------------
(* Content lists sent to the provider *)

ModelId == "gemini-2.5-flash-image-preview"
PngMime == "image/png"

TextElement(segments) == [text |-> Some(segments), inlineData |-> None]
InlineElement(data) ==
  [text |-> None, inlineData |-> Some([mimeType |-> PngMime, data |-> data])]

RECURSIVE PushAll(_, _)
\* referenceImages.forEach(image => contents.push({inlineData: ...}))
PushAll(contents, images) ==
  IF images = <<>> THEN contents
  ELSE PushAll(Append(contents, InlineElement(Head(images))), Tail(images))

\* if (request.referenceImages && request.referenceImages.length > 0) forEach push
PushReferenceImages(contents, referenceImages) ==
  IF IsSome(referenceImages) /\ Len(Get(referenceImages)) > 0
  THEN PushAll(contents, Get(referenceImages))
  ELSE contents

\* the contents generateImage builds before the call
GenerateContents(request) ==
  PushReferenceImages(<<TextElement(<<request.prompt>>)>>, request.referenceImages)

EditPromptHead == "Edit this image according to the following instruction: "
EditPromptFraming == "\n\nMaintain the original image's lighting, perspective, and overall composition. Make the changes look natural and seamlessly integrated."
MaskClause == "\n\nIMPORTANT: Apply changes ONLY where the mask image shows white pixels (value 255). Leave all other areas completely unchanged. Respect the mask boundaries precisely and maintain seamless blending at the edges."
EditPromptTail == "\n\nPreserve image quality and ensure the edit looks professional and realistic."

\* buildEditPrompt with the clause decided by `maskImage !== undefined`
BuildEditPromptDefinedMask(request) ==
  <<EditPromptHead, request.instruction, EditPromptFraming,
    IF IsSome(request.maskImage) THEN MaskClause ELSE "", EditPromptTail>>

\* buildEditPrompt: the template literal as its segments
BuildEditPrompt(request) ==
  <<EditPromptHead, request.instruction, EditPromptFraming,
    IF TruthyStr(request.maskImage) THEN MaskClause ELSE "", EditPromptTail>>

\* if (request.maskImage) contents.push({inlineData: maskImage})
PushMask(contents, maskImage) ==
  IF TruthyStr(maskImage) THEN Append(contents, InlineElement(Get(maskImage)))
  ELSE contents

\* editImage with the mask pushed before the reference images
EditContentsMaskFirst(request) ==
  PushReferenceImages(
    PushMask(<<TextElement(BuildEditPrompt(request)), InlineElement(request.originalImage)>>,
             request.maskImage),
    request.referenceImages)

\* the contents editImage builds before the call
EditContents(request) ==
  PushMask(
    PushReferenceImages(
      <<TextElement(BuildEditPrompt(request)), InlineElement(request.originalImage)>>,
      request.referenceImages),
    request.maskImage)

SegmentPromptHead == "Analyze this image and create a segmentation mask for: "
SegmentPromptTail == "\n\nReturn a JSON object with this exact structure: {masks: [{label, box_2d: [x, y, width, height], mask}]} ... white pixels (255) indicate the selected region and black pixels (0) indicate the background."

\* the prompt list segmentImage builds before the call
SegmentContents(request) ==
  <<TextElement(<<SegmentPromptHead, request.query, SegmentPromptTail>>),
    InlineElement(request.image)>>

----------------------------------------------------------------------------
(* Provider responses *)

TextMasksEmpty == "{\"masks\":[]}"
TextOtherJson == "{\"foo\":1}"
TextNotJson == "Sure! Here is the mask"

PText(t) == [text |-> Some(t), inlineData |-> None]
PImage(d) == [text |-> None, inlineData |-> Some([mimeType |-> PngMime, data |-> d])]
PBoth(t, d) == [text |-> Some(t), inlineData |-> Some([mimeType |-> PngMime, data |-> d])]

PartValues ==
  {PText(TextMasksEmpty), PText(TextNotJson), PText(""), PBoth(TextOtherJson, "imgC"),
   PImage("imgA"), PImage("imgB"), PImage("")}

Candidate(parts) == [content |-> Some([parts |-> Some(parts)])]
Candidates == {[content |-> None]} \cup {Candidate(ps) : ps \in SeqUpTo(PartValues, MaxParts)}
SecondCandidate == Candidate(<<PText(TextMasksEmpty), PImage("imgZ")>>)

Responses ==
  {[candidates |-> None], [candidates |-> Some(<<>>)]}
  \cup {[candidates |-> Some(<<c>>)] : c \in Candidates}
  \cup {[candidates |-> Some(<<c, SecondCandidate>>)] : c \in Candidates}

\* what the awaited call gives: a response, or a rejection with an error
Resolved(response) == [response |-> Some(response), error |-> None]
Rejected(error) == [response |-> None, error |-> Some(error)]
Results == {Resolved(r) : r \in Responses} \cup {Rejected(e) : e \in Errors}

\* response.candidates?.[0]?.content?.parts
FirstParts(response) ==
  IF IsSome(response.candidates) /\ Len(Get(response.candidates)) > 0
     /\ IsSome(Get(response.candidates)[1].content)
  THEN Get(Get(response.candidates)[1].content).parts
  ELSE None

\* part.inlineData?.data is truthy
HasImageData(part) == IsSome(part.inlineData) /\ Get(part.inlineData).data # ""

RECURSIVE CollectImages(_, _)
\* for (const part of parts) if (part.inlineData?.data) images.push(...)
CollectImages(parts, images) ==
  IF parts = <<>> THEN images
  ELSE CollectImages(Tail(parts),
         IF HasImageData(Head(parts))
         THEN Append(images, Get(Head(parts).inlineData).data) ELSE images)

RECURSIVE CollectAllCandidates(_, _)
CollectAllCandidates(cands, images) ==
  IF cands = <<>> THEN images
  ELSE CollectAllCandidates(Tail(cands),
         IF IsSome(Head(cands).content)
         THEN CollectImages(Get(Get(Head(cands).content).parts), images) ELSE images)

\* the extraction loop run over every candidate instead of the first
ExtractImagesEveryCandidate(response) ==
  IF IsSome(response.candidates)
  THEN CollectAllCandidates(Get(response.candidates), <<>>) ELSE <<>>

\* const images = []; if (parts) for ... push; return images
ExtractImages(response) ==
  IF IsSome(FirstParts(response)) THEN CollectImages(Get(FirstParts(response)), <<>>)
  ELSE <<>>

\* response.candidates?.[0]?.content?.parts?.[0]?.text
FirstPartText(response) ==
  IF IsSome(FirstParts(response)) /\ Len(Get(FirstParts(response))) > 0
  THEN Get(FirstParts(response))[1].text
  ELSE None

\* JSON.parse on the texts a response can carry: the parsed value, or a SyntaxError
JSONParse(text) ==
  CASE text = TextMasksEmpty -> [ok |-> TRUE, value |-> [masks |-> <<>>]]
    [] text = TextOtherJson -> [ok |-> TRUE, value |-> [foo |-> 1]]
    [] OTHER -> [ok |-> FALSE, value |-> [syntaxError |-> text]]

----------------------------------------------------------------------------
(* Outcomes of an invocation: the promise resolves or rejects *)

Return(v) == [tag |-> "return", value |-> Some(v), error |-> NoError]
Throw(e) == [tag |-> "throw", value |-> None, error |-> e]

\* what a catch block receives: an Error raised inside the try body, or the
\* provider's rejection
CaughtRaised(e) == [raised |-> Some(e), rejected |-> None]
CaughtRejected(e) == [raised |-> None, rejected |-> Some(e)]

\* generateImage after the await: return images, or the catch block's Error
GenerateOutcome(result) ==
  IF IsSome(result.response) THEN Return(ExtractImages(Get(result.response)))
  ELSE Throw(NormalizeError(Get(result.error)))

\* editImage after the await: return images, or the fixed Error of its catch
EditOutcome(result) ==
  IF IsSome(result.response) THEN Return(ExtractImages(Get(result.response)))
  ELSE Throw(NewError(EditFailedMessage, <<>>))

\* the try body of segmentImage after the await has given a response
SegmentTry(response) ==
  LET responseText == FirstPartText(response) IN
  IF ~TruthyStr(responseText) THEN Throw(NewError(NoResponseTextMessage, <<>>))
  ELSE LET parsed == JSONParse(Get(responseText)) IN
       IF parsed.ok THEN Return(parsed.value)
       ELSE Throw(NewError(SyntaxErrorName, <<>>))

\* segmentImage after the await: whatever the try body throws, and the
\* provider's rejection, is replaced by the fixed Error of its catch
SegmentOutcome(result) ==
  IF IsSome(result.response) /\ SegmentTry(Get(result.response)).tag = "return"
  THEN SegmentTry(Get(result.response))
  ELSE Throw(NewError(SegmentFailedMessage, <<>>))

\* what the catch block of an operation is given for this result, if it runs
Caught(op, result) ==
  IF IsSome(result.error) THEN Some(CaughtRejected(Get(result.error)))
  ELSE IF op = "segmentImage" /\ SegmentTry(Get(result.response)).tag = "throw"
    THEN Some(CaughtRaised(SegmentTry(Get(result.response)).error))
  ELSE None

LogLabel(op) ==
  CASE op = "generateImage" -> "Error generating image:"
    [] op = "editImage" -> "Error editing image:"
    [] op = "segmentImage" -> "Error segmenting image:"

\* console.error(label, error) when the catch block runs
Logged(log, op, result) ==
  IF IsSome(Caught(op, result))
  THEN Append(log, [label |-> LogLabel(op), error |-> Get(Caught(op, result))])
  ELSE log

----------------------------------------------------------------------------
(* The state machine.  genAI is the module-level client handle; inv[i] is  *)
(* invocation i of the service (its operation, request, position and       *)
(* settled outcome); sent[i] the generateContent calls invocation i has    *)
(* made; reply[i] what the provider gave its call; console the diagnostic  *)
(* log.                                                                    *)

Ops == {"generateImage", "editImage", "segmentImage"}

EnvKeys == {None, Some(""), Some("live-key")}

\* API_KEY = import.meta.env.VITE_GEMINI_API_KEY || 'demo-key'
ApiKey(env) == IF TruthyStr(env) THEN Get(env) ELSE "demo-key"

Idle == [pc |-> "idle", op |-> "none", req |-> None, outcome |-> None]

InitWith(n) ==
  /\ \E env \in EnvKeys : genAI = [apiKey |-> ApiKey(env)]
  /\ inv = [i \in 1..n |-> Idle]
  /\ sent = [i \in 1..n |-> <<>>]
  /\ reply = [i \in 1..n |-> None]
  /\ console = <<>>

\* genAI.models.generateContent({model, contents}) up to the await
Call(i, op, request, contents) ==
  /\ inv' = [inv EXCEPT ![i] = [pc |-> "await", op |-> op, req |-> Some(request),
                                outcome |-> None]]
  /\ sent' = [sent EXCEPT ![i] = Append(@, [apiKey |-> genAI.apiKey, model |-> ModelId,
                                            contents |-> contents])]
  /\ UNCHANGED <<genAI, reply, console>>

\* generateImage up to the await, for a request the caller chooses
GenerateImage(i, requests) ==
  /\ inv[i].pc = "idle"
  /\ \E request \in requests : Call(i, "generateImage", request, GenerateContents(request))

\* editImage up to the await
EditImage(i, requests) ==
  /\ inv[i].pc = "idle"
  /\ \E request \in requests : Call(i, "editImage", request, EditContents(request))

\* segmentImage up to the await
SegmentImage(i, requests) ==
  /\ inv[i].pc = "idle"
  /\ \E request \in requests : Call(i, "segmentImage", request, SegmentContents(request))

\* the provider settles the call of invocation i, in any order among the calls
ProviderResponds(i, results) ==
  /\ Len(sent[i]) > 0
  /\ reply[i] = None
  /\ \E result \in results : reply' = [reply EXCEPT ![i] = Some(result)]
  /\ UNCHANGED <<genAI, inv, sent, console>>

\* a shared slot: the reply of the lowest-numbered invocation that has one
ReplyForShared(i) ==
  reply[CHOOSE j \in DOMAIN reply : IsSome(reply[j]) /\ \A k \in DOMAIN reply : IsSome(reply[k]) => j <= k]

\* what the await of invocation i resumes with: the settlement of its own call
ReplyFor(i) == reply[i]

\* the rest of an operation once its await has settled
Resume(i, op, outcome) ==
  /\ inv[i].pc = "await"
  /\ inv[i].op = op
  /\ IsSome(reply[i])
  /\ inv' = [inv EXCEPT ![i].pc = "done", ![i].outcome = Some(outcome)]
  /\ console' = Logged(console, op, Get(ReplyFor(i)))
  /\ UNCHANGED <<genAI, sent, reply>>

GenerateImageResume(i) == Resume(i, "generateImage", GenerateOutcome(Get(ReplyFor(i))))
EditImageResume(i) == Resume(i, "editImage", EditOutcome(Get(ReplyFor(i))))
SegmentImageResume(i) == Resume(i, "segmentImage", SegmentOutcome(Get(ReplyFor(i))))

Init == InitWith(1)

Next ==
  \E i \in DOMAIN inv :
    \/ GenerateImage(i, GenerationRequests)
    \/ EditImage(i, EditRequests)
    \/ SegmentImage(i, SegmentationRequests)
    \/ ProviderResponds(i, Results)
    \/ GenerateImageResume(i)
    \/ EditImageResume(i)
    \/ SegmentImageResume(i)

Spec == Init /\ [][Next]_vars

----------------------------------------------------------------------------
(* Concurrent invocations on the shared client: MaxInv invocations, each   *)
(* of any operation, settled by the provider in any order.                 *)

ConcGenerationRequests == {[prompt |-> "a cat", referenceImages |-> Some(<<"refA">>)]}
ConcEditRequests ==
  {[instruction |-> "make it red", originalImage |-> "orig", referenceImages |-> None,
    maskImage |-> Some("mask")]}
ConcSegmentationRequests == {[image |-> "orig", query |-> "the red car"]}
ConcResults ==
  {Resolved([candidates |-> Some(<<Candidate(<<PImage("imgA"), PText(TextMasksEmpty)>>)>>)]),
   Resolved([candidates |-> Some(<<Candidate(<<PText(TextMasksEmpty), PImage("imgB")>>)>>)]),
   Rejected([code |-> Some(RateLimitCode), message |-> None, error |-> None]),
   Rejected([code |-> None, message |-> Some(MsgQuot), error |-> None])}

InitConc == InitWith(MaxInv)

NextConc ==
  \E i \in DOMAIN inv :
    \/ GenerateImage(i, ConcGenerationRequests)
    \/ EditImage(i, ConcEditRequests)
    \/ SegmentImage(i, ConcSegmentationRequests)
    \/ ProviderResponds(i, ConcResults)
    \/ GenerateImageResume(i)
    \/ EditImageResume(i)
    \/ SegmentImageResume(i)

SpecConc == InitConc /\ [][NextConc]_vars

----------------------------------------------------------------------------
(* Vocabulary of the properties *)

Invs == DOMAIN inv
Done(i) == inv[i].pc = "done"
Called(i) == inv[i].pc \in {"await", "done"}
Request(i) == Get(inv[i].req)
Outcome(i) == Get(inv[i].outcome)
Settled(i) == Get(reply[i])

\* invocation i of operation op has finished after the provider rejected its call
Failed(i, op) == Done(i) /\ inv[i].op = op /\ IsSome(Settled(i).error)
\* invocation i of operation op has finished after the provider gave a response
Answered(i, op) == Done(i) /\ inv[i].op = op /\ IsSome(Settled(i).response)
CaughtError(i) == Get(Settled(i).error)
Response(i) == Get(Settled(i).response)

\* the error kinds of the specification, read off the surfaced Error
KindOf(err) ==
  CASE err.literal = RateLimitMessage -> "RateLimitExceeded"
    [] err.literal = ApiErrorPrefix -> "ApiError"
    [] err.literal = GenericErrorPrefix -> "GenericError"
    [] err.literal \in {GenerateFailedMessage, EditFailedMessage, SegmentFailedMessage}
         -> "UnknownError"
    [] err.literal = NoResponseTextMessage -> "NoResponseText"
    [] err.literal = SyntaxErrorName -> "JsonParseError"
    [] OTHER -> "none"

Surfaced(i, kind, detail) ==
  /\ Outcome(i).tag = "throw"
  /\ KindOf(Outcome(i).error) = kind
  /\ Outcome(i).error.detail = detail

\* status 429 at one of the three known shapes
Has429(e) == Some(RateLimitCode) \in {ErrCode(e), ErrErrCode(e), ErrErrErrCode(e)}
\* a present, non-empty message
Present(m) == IsSome(m) /\ Get(m) # <<>>
MentionsQuota(m) == IsSome(m) /\ Includes(Get(m), Quota)
NestedQuota(e) == MentionsQuota(ErrErrMessage(e))
AnyQuota(e) ==
  MentionsQuota(ErrMessage(e)) \/ MentionsQuota(ErrErrMessage(e))
    \/ MentionsQuota(ErrErrErrMessage(e))

----------------------------------------------------------------------------
(* C1 *)

\* C1 (as stated): in generateImage a caught error with status 429 at any known
\* shape, or whose error message (at any depth) contains "quota", surfaces as
\* RateLimitExceeded.
C1_AnyQuotaMessageIsRateLimit ==
  \A i \in Invs :
    Failed(i, "generateImage") /\ (Has429(CaughtError(i)) \/ AnyQuota(CaughtError(i)))
      => Surfaced(i, "RateLimitExceeded", <<>>)

\* C1 (amended): in generateImage a caught error surfaces as RateLimitExceeded
\* exactly when it has status 429 at error.error.code, error.error.error.code or
\* error.code, or its nested provider message error.error.message contains
\* "quota"; then RateLimitExceeded wins whatever other message fields it carries.
C1_RateLimitPrecedence ==
  \A i \in Invs :
    Failed(i, "generateImage")
      => /\ Outcome(i).tag = "throw"
         /\ (Has429(CaughtError(i)) \/ NestedQuota(CaughtError(i)))
              <=> Surfaced(i, "RateLimitExceeded", <<>>)

\* a 429 found only at error.code beats a present nested provider message
C1_Witness ==
  \E i \in Invs :
    /\ Failed(i, "generateImage")
    /\ ErrCode(CaughtError(i)) = Some(RateLimitCode)
    /\ ErrErrCode(CaughtError(i)) = None /\ ErrErrErrCode(CaughtError(i)) = None
    /\ Present(ErrErrMessage(CaughtError(i))) /\ ~NestedQuota(CaughtError(i))
    /\ Present(ErrMessage(CaughtError(i)))
    /\ Surfaced(i, "RateLimitExceeded", <<>>)

----------------------------------------------------------------------------
(* C2 *)

\* C2: in generateImage a caught error that is not a rate-limit error surfaces
\* as exactly one of: ApiError wrapping error.error.message if present, else
\* ApiError wrapping error.error.error.message if present, else GenericError
\* wrapping error.message if present, else UnknownError with the fixed message.
C2_PriorityOrder ==
  \A i \in Invs :
    Failed(i, "generateImage") /\ ~Has429(CaughtError(i)) /\ ~NestedQuota(CaughtError(i))
      => LET e == CaughtError(i)
             m1 == ErrErrMessage(e)
             m2 == ErrErrErrMessage(e)
             m0 == ErrMessage(e)
         IN /\ Present(m1) => Surfaced(i, "ApiError", Get(m1))
            /\ ~Present(m1) /\ Present(m2) => Surfaced(i, "ApiError", Get(m2))
            /\ ~Present(m1) /\ ~Present(m2) /\ Present(m0)
                 => Surfaced(i, "GenericError", Get(m0))
            /\ ~Present(m1) /\ ~Present(m2) /\ ~Present(m0)
                 => /\ Surfaced(i, "UnknownError", <<>>)
                    /\ Outcome(i).error.literal = GenerateFailedMessage
            /\ KindOf(Outcome(i).error) \in {"ApiError", "GenericError", "UnknownError"}

\* the deeper provider message beats a present error.message
C2_Witness ==
  \E i \in Invs :
    /\ Failed(i, "generateImage")
    /\ ~Has429(CaughtError(i))
    /\ ~Present(ErrErrMessage(CaughtError(i)))
    /\ ErrErrErrMessage(CaughtError(i)) = Some(MsgNoQuota)
    /\ ErrMessage(CaughtError(i)) = Some(MsgQuot)
    /\ Surfaced(i, "ApiError", MsgNoQuota)

----------------------------------------------------------------------------
(* C3 *)

\* C3: a caught error surfaces from editImage and from segmentImage as the
\* same normalized kind generateImage surfaces for it.
C3_UniformNormalization ==
  \A i \in Invs :
    Failed(i, "editImage") \/ Failed(i, "segmentImage")
      => /\ Outcome(i).tag = "throw"
         /\ KindOf(Outcome(i).error) = KindOf(NormalizeError(CaughtError(i)))

----------------------------------------------------------------------------
(* C4, C5, C9 *)

PartsOfFirst(response) ==
  IF IsSome(FirstParts(response)) THEN Get(FirstParts(response)) ELSE <<>>

\* a content part that carries text
IsTextPart(part) == IsSome(part.text) /\ Get(part.text) # ""

\* C4: a response with no text part in its first candidate makes segmentImage
\* fail with NoResponseText, a kind distinct from its other failures.
C4_NoResponseTextSurfaced ==
  \A i \in Invs :
    Answered(i, "segmentImage")
      /\ (\A k \in DOMAIN PartsOfFirst(Response(i)) : ~IsTextPart(PartsOfFirst(Response(i))[k]))
      => Surfaced(i, "NoResponseText", <<>>)

\* C5: when the text segmentImage reads is not valid JSON, it fails with the
\* JSON-parse error itself.
C5_ParseErrorPropagated ==
  \A i \in Invs :
    Answered(i, "segmentImage")
      /\ TruthyStr(FirstPartText(Response(i)))
      /\ ~JSONParse(Get(FirstPartText(Response(i)))).ok
      => Surfaced(i, "JsonParseError", <<>>)

\* the first text part among the parts
FirstTextPart(parts) ==
  parts[CHOOSE k \in DOMAIN parts :
          IsTextPart(parts[k]) /\ \A j \in 1..(k - 1) : ~IsTextPart(parts[j])]

\* C9: when the first candidate has a text part and its first text part holds
\* valid JSON, wherever it sits among the parts, segmentImage returns the parsed
\* value unchanged.
C9_FirstTextPartParsed ==
  \A i \in Invs :
    Answered(i, "segmentImage")
      /\ (\E k \in DOMAIN PartsOfFirst(Response(i)) : IsTextPart(PartsOfFirst(Response(i))[k]))
      /\ JSONParse(Get(FirstTextPart(PartsOfFirst(Response(i))).text)).ok
      => Outcome(i) = Return(JSONParse(Get(FirstTextPart(PartsOfFirst(Response(i))).text)).value)

\* the part of C9 the code does: the text of the FIRST part, when valid JSON, is
\* returned parsed, with no schema validation
C9_FirstPartParsed ==
  \A i \in Invs :
    Answered(i, "segmentImage")
      /\ TruthyStr(FirstPartText(Response(i)))
      /\ JSONParse(Get(FirstPartText(Response(i)))).ok
      => Outcome(i) = Return(JSONParse(Get(FirstPartText(Response(i)))).value)

----------------------------------------------------------------------------
(* C6 *)

\* a content part that carries inline image data
CarriesImage(part) == IsSome(part.inlineData) /\ Get(part.inlineData).data # ""

\* the positions of the image-carrying parts
ImagePositions(parts) == {k \in DOMAIN parts : CarriesImage(parts[k])}

\* the n-th smallest position of P
NthPosition(P, n) == CHOOSE k \in P : Cardinality({j \in P : j < k}) = n - 1

\* C6: for a successful response generateImage and editImage return exactly the
\* data of the image-carrying parts of the first candidate, in part order, and an
\* empty sequence (no failure) when there is none; later candidates are ignored.
C6_ImagesOfFirstCandidate ==
  \A i \in Invs :
    Answered(i, "generateImage") \/ Answered(i, "editImage")
      => LET parts == PartsOfFirst(Response(i))
             P == ImagePositions(parts)
         IN /\ Outcome(i).tag = "return"
            /\ Len(Get(Outcome(i).value)) = Cardinality(P)
            /\ \A n \in 1..Cardinality(P) :
                 Get(Outcome(i).value)[n] = Get(parts[NthPosition(P, n)].inlineData).data

\* a text part is skipped, two images are kept in order, and a second candidate
\* that has an image is ignored
C6_Witness ==
  \E i \in Invs :
    /\ Answered(i, "editImage")
    /\ IsSome(Response(i).candidates) /\ Len(Get(Response(i).candidates)) = 2
    /\ PartsOfFirst(Response(i)) = <<PText(TextNotJson), PImage("imgB"), PImage("imgA")>>
    /\ Outcome(i) = Return(<<"imgB", "imgA">>)

\* a text-only response yields an empty sequence, not a failure
C6_WitnessEmpty ==
  \E i \in Invs :
    /\ Answered(i, "generateImage")
    /\ PartsOfFirst(Response(i)) = <<PText(TextNotJson)>>
    /\ Outcome(i) = Return(<<>>)

----------------------------------------------------------------------------
(* C7, C8 *)

\* the reference images of a request, none when the list is absent
RefsOf(request) ==
  IF IsSome(request.referenceImages) THEN Get(request.referenceImages) ELSE <<>>

\* the content list invocation i sent to the provider
ContentsSent(i) == sent[i][1].contents

MaskPresent(request) == IsSome(request.maskImage) /\ Get(request.maskImage) # ""

\* C7: with N reference images generateImage sends the prompt text then the N
\* images in input order (N+1 elements); editImage sends the edit prompt, the
\* original image, the N images in input order, then the mask last iff a mask is
\* present (N+2 or N+3 elements).
C7_ContentsOrder ==
  \A i \in Invs :
    Called(i) =>
      LET request == Request(i)
          contents == ContentsSent(i)
      IN /\ Len(sent[i]) = 1
         /\ inv[i].op = "generateImage" =>
              /\ Len(contents) = Len(RefsOf(request)) + 1
              /\ contents[1] = TextElement(<<request.prompt>>)
              /\ \A k \in 1..Len(RefsOf(request)) :
                   contents[k + 1] = InlineElement(RefsOf(request)[k])
         /\ inv[i].op = "editImage" =>
              /\ Len(contents) = Len(RefsOf(request)) + (IF MaskPresent(request) THEN 3 ELSE 2)
              /\ IsSome(contents[1].text) /\ contents[1].inlineData = None
              /\ Get(contents[1].text)[2] = request.instruction
              /\ contents[2] = InlineElement(request.originalImage)
              /\ \A k \in 1..Len(RefsOf(request)) :
                   contents[k + 2] = InlineElement(RefsOf(request)[k])
              /\ MaskPresent(request) =>
                   contents[Len(contents)] = InlineElement(Get(request.maskImage))

\* an edit with two reference images and a mask has been sent
C7_Witness ==
  \E i \in Invs :
    /\ Called(i) /\ inv[i].op = "editImage"
    /\ RefsOf(Request(i)) = <<"refA", "">>
    /\ Request(i).maskImage = Some("mask")
    /\ Len(ContentsSent(i)) = 5

\* the mask-handling clause is a segment of the prompt text
ClauseInPrompt(contents) ==
  \E k \in DOMAIN Get(contents[1].text) : Get(contents[1].text)[k] = MaskClause

\* a mask element follows the original image and the reference images
MaskAppended(contents, request) ==
  /\ Len(contents) = Len(RefsOf(request)) + 3
  /\ contents[Len(contents)] = InlineElement(Get(request.maskImage))

\* C8: the prompt editImage sends contains the mask-handling clause iff a mask
\* is present (a non-empty maskImage), and exactly when a mask element is
\* appended to the content list; an empty-string maskImage gets neither.
C8_ClauseIffMask ==
  \A i \in Invs :
    Called(i) /\ inv[i].op = "editImage" =>
      /\ ClauseInPrompt(ContentsSent(i)) <=> MaskPresent(Request(i))
      /\ ClauseInPrompt(ContentsSent(i)) <=> MaskAppended(ContentsSent(i), Request(i))
      /\ Request(i).maskImage = Some("") => ~ClauseInPrompt(ContentsSent(i))

\* an edit whose maskImage is the empty string has been sent with neither
C8_Witness ==
  \E i \in Invs :
    /\ Called(i) /\ inv[i].op = "editImage"
    /\ Request(i).maskImage = Some("")
    /\ ~ClauseInPrompt(ContentsSent(i))
    /\ Len(ContentsSent(i)) = Len(RefsOf(Request(i))) + 2

\* an edit with a mask has been sent with both
C8_WitnessMask ==
  \E i \in Invs :
    /\ Called(i) /\ inv[i].op = "editImage"
    /\ Request(i).maskImage = Some("mask")
    /\ ClauseInPrompt(ContentsSent(i))
    /\ MaskAppended(ContentsSent(i), Request(i))

----------------------------------------------------------------------------
(* C10 *)

\* the content list an operation sends for a request, run alone
ContentsAlone(op, request) ==
  CASE op = "generateImage" -> GenerateContents(request)
    [] op = "editImage" -> EditContents(request)
    [] op = "segmentImage" -> SegmentContents(request)

\* the outcome of an operation for the settlement of its call, run alone
OutcomeAlone(op, result) ==
  CASE op = "generateImage" -> GenerateOutcome(result)
    [] op = "editImage" -> EditOutcome(result)
    [] op = "segmentImage" -> SegmentOutcome(result)

\* each invocation has made at most one provider call, exactly one once it has
\* started, with the contents of its own request, and its outcome is the one of
\* a lone run on the settlement of its own call
IndependentState ==
  \A i \in Invs :
    /\ Len(sent[i]) <= 1
    /\ Called(i) =>
         /\ Len(sent[i]) = 1
         /\ ContentsSent(i) = ContentsAlone(inv[i].op, Request(i))
    /\ Done(i) =>
         /\ IsSome(reply[i])
         /\ Outcome(i) = OutcomeAlone(inv[i].op, Settled(i))

\* a step leaves the client handle alone, changes the record, calls and
\* settlement of at most one invocation, and at most appends to the console
IndependentStep ==
  /\ genAI' = genAI
  /\ \A i, j \in Invs :
       i # j => ~ /\ <<inv[i], sent[i], reply[i]>>' # <<inv[i], sent[i], reply[i]>>
                  /\ <<inv[j], sent[j], reply[j]>>' # <<inv[j], sent[j], reply[j]>>
  /\ \A i \in Invs : Done(i) => inv'[i] = inv[i] /\ sent'[i] = sent[i] /\ reply'[i] = reply[i]
  /\ Len(console') >= Len(console) /\ SubSeq(console', 1, Len(console)) = console

\* C10: for invocations issued concurrently and settled in any order, each makes
\* exactly one provider call, touches no state of another invocation, and ends
\* with the outcome it would produce alone on the same request and settlement.
C10_Independent == []IndependentState /\ [][IndependentStep]_vars

\* two invocations were in flight together, the later one was settled and
\* finished first, and both have finished with different outcomes
C10_Witness ==
  /\ Cardinality(Invs) >= 2
  /\ Done(1) /\ Done(2)
  /\ inv[1].op = "generateImage" /\ inv[2].op = "segmentImage"
  /\ Len(console) = 2 /\ console[1].label = LogLabel("segmentImage")
  /\ IsSome(Settled(1).error) /\ IsSome(Settled(2).response)
  /\ Outcome(1) # Outcome(2)

====
